---- MODULE Spec2Model ----
(***************************************************************************)
(* Model of the training helpers of the notebook                           *)
(* 302-pytorch-quantization-aware-training: AverageMeter, ProgressMeter,   *)
(* accuracy, train and validate.                                           *)
(*                                                                         *)
(* Numbers: Python's / is true division.  A number is modelled as an exact *)
(* reduced fraction <<numerator, denominator>> with denominator > 0, so    *)
(* sums, products and quotients are computed and not assumed.  Arithmetic  *)
(* on torch.float32 tensors is rounded to float32 (24-bit significand,     *)
(* round to nearest, ties to even) by F32; the rounding of Python's 64-bit *)
(* floats is not modelled.                                                 *)
(***************************************************************************)
EXTENDS Integers, Sequences, FiniteSets, TLC

(***************************************************************************)
(* Bounds of the model.                                                    *)
(***************************************************************************)
MaxUpdates == 3   \* update calls on one AverageMeter between two resets
MaxVal == 4       \* values passed to update are 0..MaxVal
MaxWeight == 2    \* weights passed to update are 0..MaxWeight
MaxN == 2         \* examples in a batch handed to accuracy
MaxBatches == 2   \* batches a data loader yields in one pass
MaxCalls == 2     \* calls of train or validate in one run
MaxLines == 2     \* display calls made on one ProgressMeter

(***************************************************************************)
(* Arithmetic on fractions.                                                *)
(***************************************************************************)
Abs(x) == IF x < 0 THEN -x ELSE x

\* The one element of a one-element set.  Once({e(v) : v \in {x}}) is e(x)
\* with x evaluated a single time before e.
Once(S) == CHOOSE v \in S : TRUE

RECURSIVE GCD(_, _)
GCD(a, b) == IF b = 0 THEN a ELSE Once({GCD(b, r) : r \in {a % b}})

Reduce(n, d, g) ==
    IF n >= 0 THEN <<n \div g, d \div g>>
              ELSE <<-((-n) \div g), d \div g>>

Norm(n, d) ==
    Once({Reduce(v[1], v[2], GCD(Abs(v[1]), v[2])) : v \in {<<n, d>>}})

Rat(n) == <<n, 1>>

RatAdd(a, b) == Norm(a[1] * b[2] + b[1] * a[2], a[2] * b[2])

\* value * n with n an integer
RatMulInt(a, n) == Norm(a[1] * n, a[2])

\* value / n with n a non-zero integer
RatDivInt(a, n) ==
    IF n > 0 THEN Norm(a[1], a[2] * n) ELSE Norm(-a[1], a[2] * (-n))

\* p/q <= r/s for p, r >= 0 and q, s > 0, by integer parts and then the
\* reciprocals of the remainders, so that no product is formed
RECURSIVE FracLeq(_, _, _, _)
FracLeq(p, q, r, s) ==
    IF p \div q # r \div s THEN p \div q < r \div s
    ELSE IF p % q = 0 THEN TRUE
    ELSE IF r % s = 0 THEN FALSE
    ELSE Once({FracLeq(v[1], v[2], v[3], v[4]) : v \in {<<s, r % s, q, p % q>>}})

\* a <= b for fractions a, b >= 0
RatLeq(a, b) == FracLeq(a[1], a[2], b[1], b[2])

(***************************************************************************)
(* Rounding to float32, for positive values whose exponent is in the       *)
(* normal range.                                                           *)
(***************************************************************************)
RECURSIVE Pow2(_)
Pow2(e) == IF e = 0 THEN 1 ELSE 2 * Pow2(e - 1)

\* the k with 2^k <= p/q < 2^(k+1), for p, q > 0
RECURSIVE FloorLog2(_, _)
FloorLog2(p, q) ==
    IF p < q THEN Once({FloorLog2(p2, q) : p2 \in {2 * p}}) - 1
    ELSE IF q <= p \div 2 THEN Once({FloorLog2(p, q2) : q2 \in {2 * q}}) + 1
    ELSE 0

\* the number of factors 2 of q > 0
RECURSIVE TwoAdic(_)
TwoAdic(q) == IF q % 2 = 0 THEN 1 + TwoAdic(q \div 2) ELSE 0

\* num / den rounded to the nearest integer, ties to the even one
RoundHalfEven(num, den) ==
    LET f == num \div den
        r == num % den
    IN  IF 2 * r < den THEN f
        ELSE IF 2 * r > den THEN f + 1
        ELSE IF f % 2 = 0 THEN f ELSE f + 1

SignificandBits == 24

\* the float32 nearest to the fraction x >= 0
Round24(p, q, e, a) ==
    LET qo == q \div Pow2(a)
        m  == IF e >= a THEN RoundHalfEven(p * Pow2(e - a), qo)
              ELSE RoundHalfEven(p, qo * Pow2(a - e))
    IN  IF e >= 0 THEN Norm(m, Pow2(e)) ELSE <<m * Pow2(-e), 1>>

F32(x) ==
    Once({IF v[2] = 1 /\ v[1] < Pow2(SignificandBits) THEN v
          ELSE Once({Round24(v[1], v[2], ea[1], ea[2]) :
                     ea \in {<<(SignificandBits - 1) - FloorLog2(v[1], v[2]),
                               TwoAdic(v[2])>>}})
          : v \in {x}})

(***************************************************************************)
(* AverageMeter.                                                           *)
(***************************************************************************)
\* An object on which no attribute has been assigned yet (<<>>: no value).
NoAttrs == [val |-> <<>>, avg |-> <<>>, sum |-> <<>>, count |-> <<>>]

\* a reset that forgets to clear the running average
reset_keepsAvg(self) ==
    [val |-> Rat(0), avg |-> self.avg, sum |-> Rat(0), count |-> 0]

\* AverageMeter.reset: assigns 0 to val, avg, sum and count.
reset(self) == [val |-> Rat(0), avg |-> Rat(0), sum |-> Rat(0), count |-> 0]

\* AverageMeter.__init__: stores name and fmt (not part of the numeric
\* state) and calls self.reset().
AverageMeter == reset(NoAttrs)

\* self.sum / self.count raises ZeroDivisionError when the count reached by
\* update is 0; val, sum and count were assigned before the division.
updateRaises(self, val, n) == self.count + n = 0

\* an update that overwrites the sum instead of adding to it
update_overwritesSum(self, val, n) ==
    LET s == RatMulInt(val, n)
        c == self.count + n
    IN  [val   |-> val,
         sum   |-> s,
         count |-> c,
         avg   |-> IF c = 0 THEN self.avg ELSE RatDivInt(s, c)]

\* AverageMeter.update(val, n): the fields after the call.  When the
\* division raises, avg keeps its old value.
update(self, val, n) ==
    Once({[val   |-> val,
           sum   |-> s,
           count |-> self.count + n,
           avg   |-> IF self.count + n = 0 THEN self.avg
                     ELSE RatDivInt(s, self.count + n)]
          : s \in {RatAdd(self.sum, RatMulInt(val, n))}})

(***************************************************************************)
(* accuracy(output, target, topk).  output is a sequence of N rows of C    *)
(* scores, target a sequence of labels, class indices are 0 .. C-1 as in   *)
(* the code (class j is column j+1 of a row), topk a tuple of K values.    *)
(***************************************************************************)
Max(S) == CHOOSE x \in S : \A y \in S : y <= x

Range(f) == {f[i] : i \in DOMAIN f}

\* a top-k that ranks the lowest scores first
RECURSIVE topk_row_smallest(_, _, _)
topk_row_smallest(row, k, excl) ==
    IF k = 0 THEN {<<>>}
    ELSE LET rem  == (0 .. Len(row) - 1) \ excl
             best == {j \in rem : \A j2 \in rem : row[j + 1] <= row[j2 + 1]}
         IN  UNION {{<<j>> \o t : t \in topk_row_smallest(row, k - 1, excl \cup {j})}
                    : j \in best}

\* torch.topk(k, largest=True, sorted=True) on one row: every sequence of k
\* distinct class indices in descending order of score.  The order of equal
\* scores, and which of them are kept at the boundary, is left open by
\* torch, so each consistent sequence is a possible outcome.
RECURSIVE topk_row(_, _, _)
topk_row(row, k, excl) ==
    IF k = 0 THEN {<<>>}
    ELSE LET rem  == (0 .. Len(row) - 1) \ excl
             best == {j \in rem : \A j2 \in rem : row[j2 + 1] <= row[j + 1]}
         IN  UNION {{<<j>> \o t : t \in topk_row(row, k - 1, excl \cup {j})}
                    : j \in best}

\* the outcomes of topk on the rows lo .. hi, one index sequence per row;
\* the rows are independent, so the range is taken by halves
RECURSIVE topk_range(_, _, _, _)
topk_range(out, maxk, lo, hi) ==
    IF lo > hi THEN {<<>>}
    ELSE IF lo = hi THEN {<<t>> : t \in topk_row(out[lo], maxk, {})}
    ELSE LET mid   == (lo + hi) \div 2
             left  == topk_range(out, maxk, lo, mid)
             right == topk_range(out, maxk, mid + 1, hi)
         IN  UNION {{f \o g : g \in right} : f \in left}

\* the outcomes of topk on the rows i .. N
topk_rows(out, maxk, i) == topk_range(out, maxk, i, Len(out))

\* output.topk(maxk, 1, True, True) followed by pred.t(): the possible
\* index matrices pred, pred[r][i] being the class ranked r for example i.
topk_pred(out, maxk) ==
    {[r \in 1 .. maxk |-> [i \in 1 .. Len(out) |-> f[i][r]]] :
        f \in topk_rows(out, maxk, 1)}

\* target.view(1, -1).expand_as(pred) and pred.eq(...): correct[r][i].
correct_matrix(pred, tgt) ==
    [r \in DOMAIN pred |-> [i \in DOMAIN pred[r] |-> pred[r][i] = tgt[i]]]

\* a count over the first k-1 ranks only
correct_k_short(correct, k) ==
    Cardinality({<<r, i>> \in (1 .. k - 1) \X (IF correct = <<>> THEN {} ELSE DOMAIN correct[1]) :
                    correct[r][i]})

\* a count that looks at rank k alone
correct_k_rank(correct, k) ==
    Cardinality({<<r, i>> \in {k} \X (IF correct = <<>> THEN {} ELSE DOMAIN correct[1]) :
                    correct[r][i]})

\* correct[:k].reshape(-1).float().sum(0): the number of TRUE entries in
\* the first k ranks.
correct_k(correct, k) ==
    Cardinality({<<r, i>> \in (1 .. k) \X (IF correct = <<>> THEN {} ELSE DOMAIN correct[1]) :
                    correct[r][i]})

\* a scale that divides by the number of classes instead of the batch size
scale_by_classes(ck, batch_size, C) ==
    F32(RatMulInt(F32(RatDivInt(Rat(100), C)), ck))

\* correct_k.mul_(100.0 / batch_size): correct_k is a float32 tensor (made
\* by .float()), so the Python float 100.0 / batch_size is converted to
\* float32 and the product is rounded to float32.
mul_(ck, batch_size) ==
    F32(RatMulInt(F32(RatDivInt(Rat(100), batch_size)), ck))

\* mul_ tabulated for the small batch sizes, so that it is computed once
mul_table == [n \in 1 .. 4 |-> [ck \in 0 .. n |-> mul_(ck, n)]]

scale(ck, batch_size, C) ==
    IF batch_size \in DOMAIN mul_table /\ ck \in DOMAIN mul_table[batch_size]
    THEN mul_table[batch_size][ck]
    ELSE mul_(ck, batch_size)

\* a batch size that is never taken to be below one
target_size0_clamped(tgt) == IF Len(tgt) = 0 THEN 1 ELSE Len(tgt)

\* batch_size = target.size(0)
target_size0(tgt) == Len(tgt)

\* the exception accuracy raises on these arguments, or "none":
\* topk raises when maxk exceeds the number of classes, expand_as when the
\* label vector has neither one element nor one per row, and
\* 100.0 / batch_size when batch_size is 0.
accuracyRaises(out, tgt, tk, C) ==
    IF Max(Range(tk)) > C THEN "RuntimeError"
    ELSE IF Len(tgt) # Len(out) /\ Len(tgt) # 1 THEN "RuntimeError"
    ELSE IF target_size0(tgt) = 0 THEN "ZeroDivisionError"
    ELSE "none"

\* target.view(1, -1).expand_as(pred), for a label vector that expand_as
\* accepts: a one-element label vector is repeated for each of the n
\* examples (broadcasting), a vector of n labels is taken as it is
expand_as(tgt, n) == [i \in 1 .. n |-> IF Len(tgt) = 1 THEN tgt[1] ELSE tgt[i]]

\* correct_k of every k in topk, for one outcome pred of topk
correct_counts(pred, tgt, tk) ==
    LET correct == correct_matrix(pred, expand_as(tgt, Len(pred[1])))
    IN  [j \in DOMAIN tk |-> correct_k(correct, tk[j])]

\* a loop that puts each new result in front of the list
accuracy_res_prepended(counts, tgt, C) ==
    [j \in DOMAIN counts |->
        scale(counts[Len(counts) + 1 - j], target_size0(tgt), C)]

\* the list res built by the loop over topk from the counts
accuracy_res(counts, tgt, C) ==
    [j \in DOMAIN counts |-> scale(counts[j], target_size0(tgt), C)]

\* the list res returned by accuracy for one outcome pred of topk
accuracy(pred, tgt, tk, C) == accuracy_res(correct_counts(pred, tgt, tk), tgt, C)

\* the examples counted as correct for K under the outcome pred
hitSet(pred, tgt, K) ==
    {i \in DOMAIN pred[1] :
        \E r \in 1 .. K : pred[r][i] = expand_as(tgt, Len(pred[1]))[i]}

(***************************************************************************)
(* AverageMeter.update on a float32 tensor value (acc1[0], acc5[0]): val*n, *)
(* the sum and the quotient are float32 tensor operations.                 *)
(***************************************************************************)
\* an update that leaves out the weight: every batch counts as one value
update_tensor_unweighted(self, val, n) ==
    Once({[val   |-> val,
           sum   |-> s,
           count |-> self.count + 1,
           avg   |-> F32(RatDivInt(s, self.count + 1))]
          : s \in {F32(RatAdd(self.sum, val))}})

update_tensor(self, val, n) ==
    Once({[val   |-> val,
           sum   |-> s,
           count |-> self.count + n,
           avg   |-> IF self.count + n = 0 THEN self.avg
                     ELSE F32(RatDivInt(s, self.count + n))]
          : s \in {F32(RatAdd(self.sum, F32(RatMulInt(val, n))))}})

(***************************************************************************)
(* ProgressMeter.                                                          *)
(***************************************************************************)
\* Text is a TLA+ string; Len and \o act on strings as on sequences.
Digit(d) ==
    CASE d = 0 -> "0" [] d = 1 -> "1" [] d = 2 -> "2" [] d = 3 -> "3"
      [] d = 4 -> "4" [] d = 5 -> "5" [] d = 6 -> "6" [] d = 7 -> "7"
      [] d = 8 -> "8" [] d = 9 -> "9"

\* str(n) for an integer n >= 0
RECURSIVE str_int(_)
str_int(n) == IF n < 10 THEN Digit(n) ELSE str_int(n \div 10) \o Digit(n % 10)

RECURSIVE Repeat(_, _)
Repeat(c, k) == IF k <= 0 THEN "" ELSE c \o Repeat(c, k - 1)

\* a number's text in a field of at least width characters: numbers are
\* right-aligned and padded with spaces, never cut
RightAlign(text, width) ==
    Once({Repeat(" ", width - Len(t)) \o t : t \in {text}})

\* a counter padded with zeros instead of spaces
format_d_zeros(n, width) == Repeat("0", width - Len(str_int(n))) \o str_int(n)

\* "{:<width>d}".format(n)
format_d(n, width) == RightAlign(str_int(n), width)

RECURSIVE Pow10(_)
Pow10(d) == IF d = 0 THEN 1 ELSE 10 * Pow10(d - 1)

\* <<floor(x * 10^d), remainder>> of ip + r/q by long division
RECURSIVE ScaledFloor(_, _, _, _)
ScaledFloor(ip, r, q, d) ==
    IF d = 0 THEN <<ip, r>>
    ELSE ScaledFloor(ip * 10 + (r * 10) \div q, (r * 10) % q, q, d - 1)

\* x * 10^prec rounded to the nearest integer, ties to even
round_scaled(x, prec) ==
    LET sf == Once({ScaledFloor(x[1] \div x[2], x[1] % x[2], x[2], prec)})
    IN  IF 2 * sf[2] < x[2] THEN sf[1]
        ELSE IF 2 * sf[2] > x[2] THEN sf[1] + 1
        ELSE IF sf[1] % 2 = 0 THEN sf[1] ELSE sf[1] + 1

\* the digits of m / 10^prec with prec digits after the point
fixed_text(m, prec) ==
    IF prec = 0 THEN str_int(m)
    ELSE str_int(m \div Pow10(prec)) \o "." \o format_d_zeros(m % Pow10(prec), prec)

\* "{:<width>.<prec>f}".format(x) for x >= 0: prec digits after the point,
\* the exact value rounded to the nearest, ties to even
format_f(x, fmt) ==
    Once({RightAlign(Once({fixed_text(m, f.prec) : m \in {round_scaled(v, f.prec)}}),
                     f.width) : v \in {x}, f \in {fmt}})

\* An AverageMeter object as ProgressMeter sees it: its name, its fmt
\* (":3.3f" is [width |-> 3, prec |-> 3]) and its numeric state.
MeterObj(name, fmt, state) == [name |-> name, fmt |-> fmt, state |-> state]

\* AverageMeter.__str__: "{name} {val<fmt>} ({avg<fmt>})"
meter_str(self) ==
    Once({m.name \o " " \o format_f(m.state.val, m.fmt)
                 \o " (" \o format_f(m.state.avg, m.fmt) \o ")" : m \in {self}})

\* a counter field as wide as the number of digits of num_batches + 1
get_batch_fmtstr_wider(num_batches) ==
    LET num_digits == Len(str_int(num_batches)) + 1
    IN  [width |-> num_digits, total |-> format_d(num_batches, num_digits)]

\* ProgressMeter._get_batch_fmtstr: the format string
\* "[{:<num_digits>d}/<num_batches>]", kept as the width of its field and
\* the text of the total
get_batch_fmtstr(num_batches) ==
    LET num_digits == Len(str_int(num_batches))
    IN  [width |-> num_digits, total |-> format_d(num_batches, num_digits)]

\* self.batch_fmtstr.format(batch)
batch_fmtstr_format(fmtstr, batch) ==
    "[" \o format_d(batch, fmtstr.width) \o "/" \o fmtstr.total \o "]"

\* ProgressMeter.__init__: meters holds references to AverageMeter objects,
\* here the keys under which the objects are stored
ProgressMeter(num_batches, meter_keys, prefix) ==
    [batch_fmtstr |-> get_batch_fmtstr(num_batches),
     meters       |-> meter_keys,
     prefix       |-> prefix]

\* sep.join(entries)
RECURSIVE join(_, _)
join(sep, entries) ==
    IF entries = <<>> THEN ""
    ELSE IF Len(entries) = 1 THEN entries[1]
    ELSE entries[1] \o sep \o join(sep, Tail(entries))

\* a display that prints the meters in reverse order
display_reversed(self, store, batch) ==
    Once({join("\t", entries) :
            entries \in {<<self.prefix \o batch_fmtstr_format(self.batch_fmtstr, batch)>>
                         \o [k \in 1 .. Len(self.meters) |->
                               meter_str(st[self.meters[Len(self.meters) + 1 - k]])]
                         : st \in {store}}})

\* ProgressMeter.display(batch): the line handed to print; store maps each
\* key to the object's present state
display(self, store, batch) ==
    Once({join("\t", entries) :
            entries \in {<<self.prefix \o batch_fmtstr_format(self.batch_fmtstr, batch)>>
                         \o [k \in 1 .. Len(self.meters) |-> meter_str(st[self.meters[k]])]
                         : st \in {store}}})

\* a display that takes the meters out of self.meters while it formats them
after_display_draining(self, store, batch) ==
    [self |-> [self EXCEPT !.meters = <<>>], store |-> store]

\* the ProgressMeter object and the AverageMeter objects after display(batch):
\* entries is a new list, str(meter) and the format calls only read, and
\* print writes the line; no attribute of self or of a meter is assigned
after_display(self, store, batch) == [self |-> self, store |-> store]

(***************************************************************************)
(* train and validate: the order of the statements of the loop body.  A    *)
(* stage names the next statement group to run for the current batch.      *)
(***************************************************************************)
train_print_frequency == 50
validate_print_frequency == 10

\* a report at the end of every group of print_frequency batches
should_display_groupEnd(i, print_frequency) == (i + 1) % print_frequency = 0

\* if i % print_frequency == 0: progress.display(i)
should_display(i, print_frequency) == i % print_frequency = 0

\* an enumeration that leaves out every other batch
enumerate_next_skipping(i) == i + 2

\* for i, (images, target) in enumerate(loader): the index of the batch
\* taken after batch i
enumerate_next(i) == i + 1

\* an exception handler that runs the failed call again
on_exception_retry(stage, e) == [pc |-> stage, exc |-> e]

\* the external calls are not wrapped in try/except: an exception e raised
\* at a stage leaves train or validate as it is
on_exception(stage, e) == [pc |-> "raised", exc |-> e]

\* the four meters created at the start of train and of validate
fresh_meters ==
    [batch_time |-> AverageMeter, losses |-> AverageMeter,
     top1 |-> AverageMeter, top5 |-> AverageMeter]

\* a call that goes on with the meters the previous call left
call_meters_kept(previous) == previous

\* batch_time, losses, top1 and top5 are local variables assigned at the
\* start of train and of validate: the meters of the call are new objects,
\* whatever the meters of the previous call hold
call_meters(previous) == fresh_meters

\* the AverageMeter objects of a pass with the names and formats given at
\* construction, and the ProgressMeter built on them
pass_objects(ms) ==
    [batch_time |-> MeterObj("Time", [width |-> 3, prec |-> 3], ms.batch_time),
     losses     |-> MeterObj("Loss", [width |-> 2, prec |-> 3], ms.losses),
     top1       |-> MeterObj("Acc@1", [width |-> 2, prec |-> 2], ms.top1),
     top5       |-> MeterObj("Acc@5", [width |-> 2, prec |-> 2], ms.top5)]

pass_progress(num_batches, prefix) ==
    ProgressMeter(num_batches, <<"batch_time", "losses", "top1", "top5">>, prefix)

\* prefix of the ProgressMeter of train (epoch 0) and of validate
pass_prefix(f) == IF f = "train" THEN "Epoch:[0]" ELSE "Test: "

\* print(" * Acc@1 {top1.avg:.3f} Acc@5 {top5.avg:.3f}".format(...))
summary_line(ms) ==
    " * Acc@1 " \o format_f(ms.top1.avg, [width |-> 0, prec |-> 3])
                \o " Acc@5 " \o format_f(ms.top5.avg, [width |-> 0, prec |-> 3])

\* the order the spec's state machine gives: metrics after the optimizer step
train_next_metricsAfterStep(stage) ==
    CASE stage = "fetch"     -> "forward"
      [] stage = "forward"   -> "zero_grad"
      [] stage = "zero_grad" -> "backward"
      [] stage = "backward"  -> "step"
      [] stage = "step"      -> "metrics"
      [] stage = "metrics"   -> "time"
      [] stage = "time"      -> "fetch"

\* a training body that forgets optimizer.zero_grad()
train_next_noZeroGrad(stage) ==
    CASE stage = "fetch"     -> "forward"
      [] stage = "forward"   -> "metrics"
      [] stage = "metrics"   -> "backward"
      [] stage = "zero_grad" -> "backward"
      [] stage = "backward"  -> "step"
      [] stage = "step"      -> "time"
      [] stage = "time"      -> "fetch"

\* body of the for loop of train: model and criterion, accuracy and the
\* loss/top1/top5 updates, zero_grad, backward, step, then batch_time and
\* the report.
train_next(stage) ==
    CASE stage = "fetch"     -> "forward"
      [] stage = "forward"   -> "metrics"
      [] stage = "metrics"   -> "zero_grad"
      [] stage = "zero_grad" -> "backward"
      [] stage = "backward"  -> "step"
      [] stage = "step"      -> "time"
      [] stage = "time"      -> "fetch"

\* a validation body that also takes an optimizer step
validate_next_withStep(stage) ==
    CASE stage = "fetch"     -> "forward"
      [] stage = "forward"   -> "metrics"
      [] stage = "metrics"   -> "step"
      [] stage = "step"      -> "time"
      [] stage = "time"      -> "fetch"

\* body of the for loop of validate: model and criterion, accuracy and the
\* loss/top1/top5 updates, then batch_time and the report.
validate_next(stage) ==
    CASE stage = "fetch"     -> "forward"
      [] stage = "forward"   -> "metrics"
      [] stage = "metrics"   -> "time"
      [] stage = "time"      -> "fetch"

\* a train that returns its top-1 average
train_return_top1(ms) == <<ms.top1.avg>>

\* train has no return statement: the call evaluates to None, written <<>>
train_return(ms) == <<>>

\* a validate that returns the top-5 average
validate_return_top5(ms) == <<ms.top5.avg>>

\* a validate without its return statement
validate_return_none(ms) == <<>>

\* validate ends with  return top1.avg
validate_return(ms) == <<ms.top1.avg>>

(***************************************************************************)
(* The pre-training cell: epochs passes of train and validate, the best    *)
(* accuracy and the checkpoint file.                                       *)
(***************************************************************************)
epochs == 4

\* the file download_file stored at fp32_pth_path before any training
DownloadedCheckpoint == [state_dict |-> "downloaded", acc1 |-> <<>>]

\* a comparison that also takes an equal accuracy as the best
is_best_orEqual(acc1, best) == RatLeq(best, acc1)

\* is_best = acc1 > best_acc1
is_best(acc1, best) == ~RatLeq(acc1, best)

\* max(acc1, best_acc1): Python returns the first argument unless the
\* second is greater
py_max(a, b) == IF ~RatLeq(b, a) THEN b ELSE a

(***************************************************************************)
(* The export cells: a model is converted and saved as an IR file.         *)
(***************************************************************************)
\* the paths the three export cells write
IRPaths == {"models/ov_model.xml", "model/resnet18_int8.xml", "models/model.xml"}

\* path.exists()
exists(fs, path) == fs[path] # <<>>

\* a cell that converts and saves on every run
export_needed_always(fs, path) == TRUE

\* if not path.exists():
export_needed(fs, path) == ~exists(fs, path)

(***************************************************************************)
(* The demo of the table question answering notebook.                      *)
(***************************************************************************)
\* a DataFrame: row labels, column labels and one string per cell; cells
\* are addressed by position, counted from 0 as iloc counts them
DataFrame(index, columns, cells) ==
    [index |-> index, columns |-> columns, cells |-> cells]

CellsOf(x) == (0..(Len(x.index) - 1)) \X (0..(Len(x.columns) - 1))

\* pd.DataFrame('', index=x.index, columns=x.columns)
EmptyLike(x) == DataFrame(x.index, x.columns, [pos \in CellsOf(x) |-> ""])

HighlightStyle == "background-color: lightgreen"

\* highlighted_table.iloc[coordinates_i[0], coordinates_i[1]] = style, for the
\* coordinates from the i-th on
RECURSIVE highlight_from(_, _, _)
highlight_from(highlighted_table, coordinates, i) ==
    IF i > Len(coordinates) THEN highlighted_table
    ELSE highlight_from(
            [highlighted_table EXCEPT
                !.cells[<<coordinates[i][1], coordinates[i][2]>>] = HighlightStyle],
            coordinates, i + 1)

\* a version that writes the styles into x itself
highlight_answers_inplace(x, coordinates) ==
    [x |-> highlight_from(x, coordinates, 1),
     highlighted_table |-> highlight_from(x, coordinates, 1)]

\* highlight_answers: the argument after the call and the table returned
highlight_answers(x, coordinates) ==
    [x |-> x, highlighted_table |-> highlight_from(EmptyLike(x), coordinates, 1)]

\* what launch can raise; KeyboardInterrupt is no subclass of Exception
LaunchErrors == {"OSError", "ValueError", "KeyboardInterrupt"}

IsException(e) == e # "KeyboardInterrupt"

\* a handler around both launches that launches with share=True again
launch_raised_retrying(share, e) ==
    IF IsException(e)
    THEN [pc |-> "launch_share", exc |-> <<>>]
    ELSE [pc |-> "raised", exc |-> <<e>>]

\* try: launch(debug=True)  except Exception: launch(share=True, debug=True)
\* where the cell goes when the launch with the given share flag raises e
launch_raised(share, e) ==
    IF ~share /\ IsException(e)
    THEN [pc |-> "launch_share", exc |-> <<>>]
    ELSE [pc |-> "raised", exc |-> <<e>>]

VARIABLES
    meter,      \* the AverageMeter object under test
    hist,       \* the <<value, weight>> of every update since the last reset
    lastOp,     \* "init", "update" or "reset": the last call made on meter
    raised,     \* "none" or the exception the last call raised
    everUpdated, \* TRUE once update has been called on meter
    output,     \* score matrix handed to accuracy
    target,     \* label vector handed to accuracy
    topk,       \* tuple of K values handed to accuracy
    nclasses,   \* number of columns of output
    accpc,      \* "call" before accuracy runs, then "returned" or "raised"
    res,        \* the list accuracy returned
    hits,       \* per requested K, the examples whose label was selected
    accRaised,  \* "none" or the exception accuracy raised
    fn,         \* "none", "train" or "validate": the function being run
    pc,         \* "idle", a stage of the loop body, "done" or "raised"
    loader,     \* the data loader: the label vector of each of its batches
    idx,        \* index i of the current batch (enumerate)
    cur,        \* [target, output, loss, acc1, acc5] of the current batch
    meters,     \* the batch_time, losses, top1 and top5 meters of the call
    params,     \* the model parameters (number of optimizer steps applied)
    grad,       \* the gradient buffers: "none", "zero" or "set"
    flags,      \* [training, grad_enabled]: model mode and autograd mode
    stdout,     \* lines printed by the current call
    retval,     \* <<>> for None, <<v>> for a returned value v
    exc,        \* "none" or the exception that left the call
    trace,      \* <<stage, batch index>> of every statement group run
    snapshot,   \* params when the current call started
    ncalls,     \* calls of train and validate made so far
    seen,       \* examples of the current call and those correct at top-1
    progressMeter, \* the ProgressMeter object under test
    numBatches, \* the num_batches it was constructed with
    meterObjs,  \* the AverageMeter objects it refers to, by key
    printed,    \* the lines its display calls printed
    calls,      \* per display call: the batch argument and the objects then
    epoch,      \* pre-training loop: the epoch about to run
    best_acc1,  \* pre-training loop: best validation accuracy so far
    acc1_fp32,  \* <<>> until the loop has ended, then <<accuracy>>
    weights,    \* version of the model weights (training passes applied)
    checkpoint, \* content of the file at fp32_pth_path
    accHistory, \* the accuracy validate returned in each epoch
    saveLog,    \* the epochs in which torch.save was called
    files,      \* per IR path: <<>> (no file) or <<version the file was made of>>
    inMemory,   \* per IR path: version of the model object its cell converts
    conversions, \* per IR path: calls of ov.convert_model made by its cell
    runs,       \* per IR path: executions of its export cell
    demoPc,     \* position of the cell that launches the demo
    launches,   \* the calls of demo.queue().launch made so far, with outcomes
    demoExc,    \* <<>> or <<e>>: the exception that left the launch cell
    requests,   \* clicks of the Submit button served by infer
    tqaCalls,   \* calls of the tqa pipeline made by infer
    inferOut    \* what the last call of infer gave back

meterVars == <<meter, hist, lastOp, raised, everUpdated>>
accVars == <<output, target, topk, nclasses, accpc, res, hits, accRaised>>
loopVars == <<fn, pc, loader, idx, cur, meters, params, grad, flags, stdout,
              retval, exc, trace, snapshot, ncalls, seen>>

fmtVars == <<progressMeter, numBatches, meterObjs, printed, calls>>

trainVars == <<epoch, best_acc1, acc1_fp32, weights, checkpoint, accHistory,
               saveLog>>

exportVars == <<files, inMemory, conversions, runs>>

demoVars == <<demoPc, launches, demoExc, requests, tqaCalls, inferOut>>

extraVars == <<trainVars, exportVars, demoVars>>

vars == <<meterVars, accVars, loopVars, fmtVars, extraVars>>

Values == {Rat(v) : v \in 0 .. MaxVal}
Weights == 0 .. MaxWeight

MeterIdle ==
    /\ meter = AverageMeter
    /\ hist = <<>>
    /\ lastOp = "init"
    /\ raised = "none"
    /\ everUpdated = FALSE

AccIdle ==
    /\ output = <<>>
    /\ target = <<>>
    /\ topk = <<1>>
    /\ nclasses = 1
    /\ accpc = "idle"
    /\ res = <<>>
    /\ hits = <<>>
    /\ accRaised = "none"

\* no example has been processed by the current call
NoneSeen == [examples |-> 0, correct1 |-> 0]

NoBatch == [target |-> <<>>, output |-> <<>>, loss |-> Rat(0),
            acc1 |-> Rat(0), acc5 |-> Rat(0)]

LoopIdle ==
    /\ fn = "none"
    /\ pc = "idle"
    /\ loader = <<>>
    /\ idx = 0
    /\ cur = NoBatch
    /\ meters = fresh_meters
    /\ params = 0
    /\ grad = "none"
    /\ flags = [training |-> TRUE, grad_enabled |-> TRUE]
    /\ stdout = <<>>
    /\ retval = <<>>
    /\ exc = "none"
    /\ trace = <<>>
    /\ snapshot = 0
    /\ ncalls = 0
    /\ seen = NoneSeen

FmtIdle ==
    /\ progressMeter = ProgressMeter(0, <<>>, "")
    /\ numBatches = 0
    /\ meterObjs = <<>>
    /\ printed = <<>>
    /\ calls = <<>>

\* the pre-training cell has not run; the file at fp32_pth_path is the
\* downloaded checkpoint
TrainIdle ==
    /\ epoch = 0
    /\ best_acc1 = Rat(0)
    /\ acc1_fp32 = <<>>
    /\ weights = 0
    /\ checkpoint = DownloadedCheckpoint
    /\ accHistory = <<>>
    /\ saveLog = <<>>

\* no export cell has run and no IR file exists
ExportIdle ==
    /\ files = [c \in IRPaths |-> <<>>]
    /\ inMemory = [c \in IRPaths |-> 0]
    /\ conversions = [c \in IRPaths |-> 0]
    /\ runs = [c \in IRPaths |-> 0]

\* the demo cell has not run
DemoIdle ==
    /\ demoPc = "idle"
    /\ launches = <<>>
    /\ demoExc = <<>>
    /\ requests = 0
    /\ tqaCalls = 0
    /\ inferOut = <<>>

ExtraIdle ==
    /\ TrainIdle
    /\ ExportIdle
    /\ DemoIdle

MeterInit ==
    /\ AccIdle
    /\ LoopIdle
    /\ FmtIdle
    /\ ExtraIdle
    /\ meter = AverageMeter
    /\ hist = <<>>
    /\ lastOp = "init"
    /\ raised = "none"
    /\ everUpdated = FALSE

\* one call meter.update(v, n)
MeterUpdate ==
    /\ Len(hist) < MaxUpdates
    /\ \E v \in Values, n \in Weights :
          /\ meter' = update(meter, v, n)
          /\ raised' = IF updateRaises(meter, v, n)
                       THEN "ZeroDivisionError" ELSE "none"
          /\ hist' = Append(hist, <<v, n>>)
    /\ lastOp' = "update"
    /\ everUpdated' = TRUE
    /\ UNCHANGED <<accVars, loopVars, fmtVars, extraVars>>

\* one call meter.reset()
MeterReset ==
    /\ meter' = reset(meter)
    /\ hist' = <<>>
    /\ lastOp' = "reset"
    /\ raised' = "none"
    /\ UNCHANGED <<everUpdated, accVars, loopVars, fmtVars, extraVars>>

MeterNext == MeterUpdate \/ MeterReset

SpecMeter == MeterInit /\ [][MeterNext]_vars

(***************************************************************************)
(* Claims about AverageMeter, checked under SpecMeter.                     *)
(***************************************************************************)
RECURSIVE SumVN(_)
SumVN(h) == IF h = <<>> THEN 0
            ELSE h[1][1][1] * h[1][2] + SumVN(Tail(h))

RECURSIVE SumN(_)
SumN(h) == IF h = <<>> THEN 0 ELSE h[1][2] + SumN(Tail(h))

AllWeightsPositive == \A i \in 1 .. Len(hist) : hist[i][2] > 0

\* C1: after any sequence of update(v_i, n_i) calls from reset with integer
\* weights n_i > 0, val is the last v, sum is the sum of v_i*n_i, count is
\* the sum of n_i and avg is sum/count; update(2,1) then update(4,1) leaves
\* avg = 3.
C1_UpdateAccumulates ==
    /\ (hist # <<>> /\ AllWeightsPositive) =>
          /\ raised = "none"
          /\ meter.val = hist[Len(hist)][1]
          /\ meter.sum = Rat(SumVN(hist))
          /\ meter.count = SumN(hist)
          /\ meter.avg[2] > 0
          /\ meter.avg[1] * SumN(hist) = SumVN(hist) * meter.avg[2]
    /\ hist = << <<Rat(2), 1>>, <<Rat(4), 1>> >> => meter.avg = Rat(3)

\* C1 witness: update(2,1) followed by update(4,1) has been applied.
C1_Witness ==
    /\ hist = << <<Rat(2), 1>>, <<Rat(4), 1>> >>
    /\ lastOp = "update"
    /\ meter.count = 2

\* C7: after reset(), and after construction, val, sum, count and avg are
\* all 0 whatever updates came before, and avg reads as 0 without raising.
C7_ResetZeroes ==
    hist = <<>> =>
        /\ meter.val = Rat(0)
        /\ meter.sum = Rat(0)
        /\ meter.count = 0
        /\ meter.avg = Rat(0)
        /\ raised = "none"

\* C7 witness: a reset that followed at least one update.
C7_Witness == lastOp = "reset" /\ everUpdated /\ meter.avg = Rat(0)

\* C8: no call to update(value, weight) with integer weight >= 0 fails with
\* a division by zero.
C8_UpdateNeverDividesByZero == raised # "ZeroDivisionError"

\* C9: after exactly one update(v, w) from the reset state, avg equals v,
\* for every value v and every weight w.
C9_SingleUpdateAvgIsValue ==
    Len(hist) = 1 => (raised = "none" /\ meter.avg = hist[1][1])

(***************************************************************************)
(* accuracy applied to bounded inputs.                                     *)
(***************************************************************************)
Scores == {0, 1}

\* the numbers of classes tried
ClassCounts == 1 .. 3

\* the tuples of K values tried for C classes
TopkChoices(C) ==
    {<<k>> : k \in 1 .. C} \cup
    {p \in (1 .. C) \X (1 .. C) : p[1] < p[2] \/ p = <<C, 1>>}

\* sizes of the larger single-class batches tried
LargeBatchSizes == {45, 97}

\* lengths of a label vector that does not have one label per row
MismatchedLens(N) == {L \in 0 .. 2 : L # N}

\* the score matrix [[0.1, 0.9], [0.8, 0.2]] in tenths, and two label
\* vectors for it
ExampleScores == << <<1, 9>>, <<8, 2>> >>
ExampleLabels == {<<1, 0>>, <<0, 1>>}
\* score rows over three classes without equal scores
DistinctRows == {<<3, 1, 2>>, <<1, 2, 3>>}

AccInit ==
    /\ MeterIdle
    /\ LoopIdle
    /\ FmtIdle
    /\ ExtraIdle
    /\ \/ \E N \in 0 .. MaxN, C \in ClassCounts :
             /\ nclasses = C
             /\ output \in [1 .. N -> [1 .. C -> Scores]]
             /\ target \in [1 .. N -> 0 .. C - 1]
             /\ topk \in TopkChoices(C)
       \/ \E N \in LargeBatchSizes, x \in Scores :
             /\ nclasses = 1
             /\ output = [i \in 1 .. N |-> <<x>>]
             /\ target = [i \in 1 .. N |-> 0]
             /\ topk = <<1>>
       \/ \E N \in 1 .. MaxN, C \in ClassCounts :
             /\ nclasses = C
             /\ output \in [1 .. N -> [1 .. C -> Scores]]
             /\ \E L \in MismatchedLens(N) : target \in [1 .. L -> 0 .. C - 1]
             /\ topk \in TopkChoices(C)
       \/ /\ nclasses = 2
          /\ output = ExampleScores
          /\ target \in ExampleLabels
          /\ topk \in TopkChoices(2)
       \/ /\ nclasses = 3
          /\ output \in [1 .. 2 -> DistinctRows]
          /\ target \in [1 .. 2 -> 0 .. 2]
          /\ topk \in TopkChoices(3)
    /\ accpc = "call"
    /\ res = <<>>
    /\ hits = <<>>
    /\ accRaised = "none"

\* accuracy(output, target, topk) returns
AccReturn ==
    /\ accpc = "call"
    /\ accuracyRaises(output, target, topk, nclasses) = "none"
    /\ \E o \in {<<correct_counts(pred, target, topk),
                     [j \in DOMAIN topk |-> hitSet(pred, target, topk[j])]>> :
                      pred \in topk_pred(output, Max(Range(topk)))} :
          /\ res' = accuracy_res(o[1], target, nclasses)
          /\ hits' = o[2]
    /\ accpc' = "returned"
    /\ UNCHANGED <<output, target, topk, nclasses, accRaised, meterVars, loopVars, fmtVars, extraVars>>

\* accuracy(output, target, topk) raises
AccRaise ==
    /\ accpc = "call"
    /\ accuracyRaises(output, target, topk, nclasses) # "none"
    /\ accRaised' = accuracyRaises(output, target, topk, nclasses)
    /\ accpc' = "raised"
    /\ UNCHANGED <<output, target, topk, nclasses, res, hits, meterVars, loopVars, fmtVars, extraVars>>

AccNext == AccReturn \/ AccRaise

SpecAcc == AccInit /\ [][AccNext]_vars

(***************************************************************************)
(* Claims about accuracy, checked under SpecAcc.                           *)
(***************************************************************************)
\* the call returned for a non-empty batch with one label per row
ReturnedForBatch ==
    accpc = "returned" /\ Len(output) > 0 /\ Len(target) = Len(output)

\* classes of example i scoring strictly higher than its label
Above(i) ==
    Cardinality({c \in 0 .. nclasses - 1 :
                    output[i][c + 1] > output[i][target[i] + 1]})

\* other classes of example i scoring at least as high as its label
AtLeast(i) ==
    Cardinality({c \in (0 .. nclasses - 1) \ {target[i]} :
                    output[i][c + 1] >= output[i][target[i] + 1]})

\* the float32 value r is 100 * cnt / n up to the rounding of the two
\* float32 operations that produce it (relative error below 2^-22)
IsPercentage(r, cnt, n) ==
    /\ r[2] > 0
    /\ Abs(r[1] * n - 100 * cnt * r[2]) <= (100 * cnt * r[2]) \div Pow2(22)

\* C2: for a non-empty batch of N rows with valid labels and every requested
\* K in 1..C, accuracy returns, as a float32 value, 100 * (number of examples
\* whose label is among the example's K highest-scoring classes) / N.  An
\* example is counted only if fewer than K classes score strictly higher
\* than its label, and is left out only if at least K other classes score at
\* least as high.
C2_TopKAccuracy ==
    ReturnedForBatch =>
        /\ Len(res) = Len(topk)
        /\ \A j \in DOMAIN topk :
            /\ IsPercentage(res[j], Cardinality(hits[j]), Len(output))
            /\ \A i \in 1 .. Len(output) :
                  /\ i \in hits[j] => Above(i) < topk[j]
                  /\ i \notin hits[j] => AtLeast(i) >= topk[j]

\* C2 witness: two examples over three classes, K = 1 and K = 2 requested,
\* one example correct at K = 1 and both at K = 2.
C2_Witness ==
    /\ ReturnedForBatch
    /\ Len(output) = 2 /\ nclasses = 3
    /\ topk = <<1, 2>>
    /\ res = <<Rat(50), Rat(100)>>

\* C10: for a non-empty batch with valid labels the accuracy returned for
\* K = C is exactly 100, whatever the scores and the order of equal scores.
C10_TopCIsHundred ==
    ReturnedForBatch =>
        \A j \in DOMAIN topk : topk[j] = nclasses => res[j] = Rat(100)

\* C11: whenever accuracy returns, for every pair of requested K values
\* K1 < K2 (in whatever order they were requested) the value returned for K1
\* is at most the value returned for K2.
C11_MonotoneInK ==
    accpc = "returned" =>
        \A j1, j2 \in DOMAIN topk :
            topk[j1] < topk[j2] => RatLeq(res[j1], res[j2])

\* C11 witness: K = 3 and K = 1 requested in that order for two examples,
\* and the value for K = 1 is strictly below the value for K = 3.
C11_Witness ==
    /\ accpc = "returned" /\ Len(output) = 2 /\ Len(target) = 2
    /\ topk = <<3, 1>>
    /\ res[2] # res[1]
    /\ RatLeq(res[2], res[1])

\* C12: a call of accuracy on an empty batch (no score row, no label) never
\* returns a value: it fails inside accuracy, at the division
\* 100.0 / batch_size of accuracy's own loop, whatever K values are requested.
C12_EmptyBatchFails ==
    (Len(output) = 0 /\ Len(target) = 0 /\ accpc # "call") =>
        /\ accpc = "raised"
        /\ accRaised = "ZeroDivisionError"
        /\ res = <<>>

\* C12 witness: the call on an empty batch with K = 1 and K = 2 has failed.
C12_Witness ==
    /\ Len(output) = 0 /\ Len(target) = 0
    /\ topk = <<1, 2>>
    /\ accpc = "raised" /\ accRaised # "none"

\* C13: a call of accuracy whose label vector has not one label per score
\* row never returns a result, a one-element label vector against several
\* rows included.
C13_MismatchAlwaysRaises ==
    Len(target) # Len(output) => accpc # "returned"

\* 0 <= r <= 100 for a fraction r
InPercentRange(r) == r[2] > 0 /\ 0 <= r[1] /\ r[1] <= 100 * r[2]

\* C14: every value accuracy returns for a non-empty batch with one valid
\* label per row and K in 1..C lies in [0, 100].
C14_ResultInRange ==
    ReturnedForBatch => \A j \in DOMAIN res : InPercentRange(res[j])

\* C15: for the scores [[0.1, 0.9], [0.8, 0.2]] and K = 1, accuracy returns
\* 100 for the labels [1, 0] and 0 for the labels [0, 1].
C15_Example ==
    (accpc = "returned" /\ output = ExampleScores /\ topk = <<1>>) =>
        /\ target = <<1, 0>> => res = <<Rat(100)>>
        /\ target = <<0, 1>> => res = <<Rat(0)>>

\* C15 witness: the call with the labels [1, 0] has returned 100.
C15_Witness ==
    /\ accpc = "returned" /\ output = ExampleScores /\ topk = <<1>>
    /\ target = <<1, 0>> /\ res = <<Rat(100)>>

\* no two classes of a row have the same score
RowsDistinct ==
    \A i \in DOMAIN output :
        \A c1, c2 \in DOMAIN output[i] : c1 # c2 => output[i][c1] # output[i][c2]

\* C29: accuracy returns one value per requested K, in the order of the
\* request; when no row has equal scores, the value for K in a call that
\* requests several K values (top-maxK taken once, the first K ranks
\* sliced) is the value a call requesting K alone returns (top-K taken).
C29_MultiKEqualsSingleK ==
    ReturnedForBatch =>
        /\ Len(res) = Len(topk)
        /\ RowsDistinct =>
              \A j \in DOMAIN topk :
                  \A p \in topk_pred(output, topk[j]) :
                      accuracy(p, target, <<topk[j]>>, nclasses) = <<res[j]>>

\* C29 witness: two rows over three classes without equal scores, K = 3 and
\* K = 1 requested in that order, 100 and 50 returned.
C29_Witness ==
    /\ ReturnedForBatch /\ RowsDistinct
    /\ nclasses = 3 /\ Len(output) = 2
    /\ topk = <<3, 1>>
    /\ res = <<Rat(100), Rat(50)>>

(***************************************************************************)
(* train and validate run over a data loader.                              *)
(***************************************************************************)
\* score rows the model returns (six classes) and label vectors of batches
LoopRows == {<<5, 4, 3, 2, 1, 0>>, <<3, 3, 2, 1, 0, 0>>}
LoopTargets == {<<0, 5>>, <<4>>}
\* output.size(1): the number of classes of a score matrix
NumCols(out) == IF out = <<>> THEN 0 ELSE Len(out[1])
LossValues == {Rat(1), Rat(3)}
Elapsed == Rat(1)

Loaders == UNION {[1 .. B -> LoopTargets] : B \in 0 .. MaxBatches}

Init ==
    /\ MeterIdle
    /\ AccIdle
    /\ LoopIdle
    /\ FmtIdle
    /\ ExtraIdle

\* the caller runs train(train_loader, model, criterion, optimizer, epoch):
\* fresh meters and ProgressMeter, model.train(), then the first fetch
CallTrain ==
    /\ pc \in {"idle", "done"}
    /\ ncalls < MaxCalls
    /\ \E l \in Loaders : loader' = l
    /\ fn' = "train"
    /\ meters' = call_meters(meters)
    /\ flags' = [flags EXCEPT !.training = TRUE]
    /\ idx' = 0
    /\ cur' = NoBatch
    /\ stdout' = <<>>
    /\ retval' = <<>>
    /\ exc' = "none"
    /\ trace' = <<>>
    /\ snapshot' = params
    /\ ncalls' = ncalls + 1
    /\ seen' = NoneSeen
    /\ pc' = "fetch"
    /\ UNCHANGED <<params, grad, meterVars, accVars, fmtVars, extraVars>>

\* the caller runs validate(val_loader, model, criterion): fresh meters and
\* ProgressMeter, model.eval(), torch.no_grad() entered, then the first fetch
CallValidate ==
    /\ pc \in {"idle", "done"}
    /\ ncalls < MaxCalls
    /\ \E l \in Loaders : loader' = l
    /\ fn' = "validate"
    /\ meters' = call_meters(meters)
    /\ flags' = [training |-> FALSE, grad_enabled |-> FALSE]
    /\ idx' = 0
    /\ cur' = NoBatch
    /\ stdout' = <<>>
    /\ retval' = <<>>
    /\ exc' = "none"
    /\ trace' = <<>>
    /\ snapshot' = params
    /\ ncalls' = ncalls + 1
    /\ seen' = NoneSeen
    /\ pc' = "fetch"
    /\ UNCHANGED <<params, grad, meterVars, accVars, fmtVars, extraVars>>

\* the stage that follows stage in the function being run
NextStage(stage) ==
    IF fn = "train" THEN train_next(stage) ELSE validate_next(stage)

Log(stage) == Append(trace, <<stage, idx>>)

\* for i, (images, target) in enumerate(loader): the next batch is taken
Fetch ==
    /\ pc = "fetch"
    /\ idx < Len(loader)
    /\ cur' = [NoBatch EXCEPT !.target = loader[idx + 1]]
    /\ trace' = Log("fetch")
    /\ pc' = NextStage("fetch")
    /\ UNCHANGED <<seen, fn, loader, idx, meters, params, grad, flags, stdout,
                   retval, exc, snapshot, ncalls, meterVars, accVars, fmtVars, extraVars>>

\* output = model(images); loss = criterion(output, target): the external
\* model returns some score matrix with one row per example, the criterion
\* some loss value
Forward ==
    /\ pc = "forward"
    /\ \E out \in [1 .. Len(cur.target) -> LoopRows], l \in LossValues :
          cur' = [cur EXCEPT !.output = out, !.loss = l]
    /\ trace' = Log("forward")
    /\ pc' = NextStage("forward")
    /\ UNCHANGED <<seen, fn, loader, idx, meters, params, grad, flags, stdout,
                   retval, exc, snapshot, ncalls, meterVars, accVars, fmtVars, extraVars>>

\* acc1, acc5 = accuracy(output, target, topk=(1, 5)); losses.update(
\* loss.item(), n); top1.update(acc1[0], n); top5.update(acc5[0], n)
Metrics ==
    /\ pc = "metrics"
    /\ accuracyRaises(cur.output, cur.target, <<1, 5>>, NumCols(cur.output)) = "none"
    /\ \E cnt \in {correct_counts(pred, cur.target, <<1, 5>>) :
                     pred \in topk_pred(cur.output, 5)} :
          LET n == Len(cur.output)
              r == accuracy_res(cnt, cur.target, NumCols(cur.output))
          IN  /\ cur' = [cur EXCEPT !.acc1 = r[1], !.acc5 = r[2]]
              /\ seen' = [examples |-> seen.examples + n,
                          correct1 |-> seen.correct1 + cnt[1]]
              /\ meters' = [meters EXCEPT
                              !.losses = update(@, cur.loss, n),
                              !.top1 = update_tensor(@, r[1], n),
                              !.top5 = update_tensor(@, r[2], n)]
    /\ trace' = Log("metrics")
    /\ pc' = NextStage("metrics")
    /\ UNCHANGED <<fn, loader, idx, params, grad, flags, stdout,
                   retval, exc, snapshot, ncalls, meterVars, accVars, fmtVars, extraVars>>

\* optimizer.zero_grad()
ZeroGrad ==
    /\ pc = "zero_grad"
    /\ grad' = "zero"
    /\ trace' = Log("zero_grad")
    /\ pc' = NextStage("zero_grad")
    /\ UNCHANGED <<seen, fn, loader, idx, cur, meters, params, flags, stdout,
                   retval, exc, snapshot, ncalls, meterVars, accVars, fmtVars, extraVars>>

\* loss.backward()
Backward ==
    /\ pc = "backward"
    /\ grad' = "set"
    /\ trace' = Log("backward")
    /\ pc' = NextStage("backward")
    /\ UNCHANGED <<seen, fn, loader, idx, cur, meters, params, flags, stdout,
                   retval, exc, snapshot, ncalls, meterVars, accVars, fmtVars, extraVars>>

\* optimizer.step(): the parameters are changed in place
OptStep ==
    /\ pc = "step"
    /\ params' = params + 1
    /\ trace' = Log("step")
    /\ pc' = NextStage("step")
    /\ UNCHANGED <<seen, fn, loader, idx, cur, meters, grad, flags, stdout,
                   retval, exc, snapshot, ncalls, meterVars, accVars, fmtVars, extraVars>>

\* batch_time.update(time.time() - end); end = time.time(); then
\* if i % print_frequency == 0: progress.display(i); the loop goes on
Time ==
    /\ pc = "time"
    /\ LET ms == [meters EXCEPT !.batch_time = update(@, Elapsed, 1)]
           freq == IF fn = "train" THEN train_print_frequency
                   ELSE validate_print_frequency
           progress == pass_progress(Len(loader), pass_prefix(fn))
       IN  /\ meters' = ms
           /\ IF should_display(idx, freq)
              THEN /\ stdout' = Append(stdout, display(progress, pass_objects(ms), idx))
                   /\ trace' = Append(Log("time"), <<"report", idx>>)
              ELSE /\ stdout' = stdout
                   /\ trace' = Log("time")
    /\ idx' = enumerate_next(idx)
    /\ pc' = NextStage("time")
    /\ UNCHANGED <<seen, fn, loader, cur, params, grad, flags,
                   retval, exc, snapshot, ncalls, meterVars, accVars, fmtVars, extraVars>>

\* the loader is exhausted and train ends
TrainReturn ==
    /\ pc = "fetch"
    /\ fn = "train"
    /\ idx >= Len(loader)
    /\ retval' = train_return(meters)
    /\ pc' = "done"
    /\ UNCHANGED <<seen, fn, loader, idx, cur, meters, params, grad, flags, stdout,
                   exc, trace, snapshot, ncalls, meterVars, accVars, fmtVars, extraVars>>

\* the loader is exhausted: validate prints the summary line, leaves
\* torch.no_grad() and returns
ValidateReturn ==
    /\ pc = "fetch"
    /\ fn = "validate"
    /\ idx >= Len(loader)
    /\ stdout' = Append(stdout, summary_line(meters))
    /\ flags' = [flags EXCEPT !.grad_enabled = TRUE]
    /\ retval' = validate_return(meters)
    /\ pc' = "done"
    /\ UNCHANGED <<seen, fn, loader, idx, cur, meters, params, grad,
                   exc, trace, snapshot, ncalls, meterVars, accVars, fmtVars, extraVars>>

\* the stages of the loop body that call the model, the criterion or the
\* optimizer
ExternalStages == {"forward", "zero_grad", "backward", "step"}

\* an external call (model, criterion, optimizer, backward) raises: the
\* exception leaves the function, torch.no_grad() is left on the way out
Raise ==
    /\ pc \in ExternalStages
    /\ exc' = on_exception(pc, "RuntimeError").exc
    /\ pc' = on_exception(pc, "RuntimeError").pc
    /\ flags' = [flags EXCEPT !.grad_enabled = TRUE]
    /\ UNCHANGED <<seen, fn, loader, idx, cur, meters, params, grad, stdout,
                   retval, trace, snapshot, ncalls, meterVars, accVars, fmtVars, extraVars>>

Next ==
    \/ CallTrain \/ CallValidate
    \/ Fetch \/ Forward \/ Metrics
    \/ ZeroGrad \/ Backward \/ OptStep
    \/ Time
    \/ TrainReturn \/ ValidateReturn
    \/ Raise

Spec == Init /\ [][Next]_vars

(***************************************************************************)
(* Claims about train and validate, checked under Spec.                    *)
(***************************************************************************)
OptimizerStages == {"zero_grad", "backward", "step"}

\* positions of the event <<stage, b>> in the trace
Positions(stage, b) == {p \in 1 .. Len(trace) : trace[p] = <<stage, b>>}

\* the statement groups of batch b in the order the code runs them
BatchTrace(f, b) ==
    LET body == IF f = "train"
                THEN <<"fetch", "forward", "metrics", "zero_grad", "backward",
                       "step", "time">>
                ELSE <<"fetch", "forward", "metrics", "time">>
        freq == IF f = "train" THEN train_print_frequency
                ELSE validate_print_frequency
    IN  [k \in 1 .. Len(body) |-> <<body[k], b>>]
        \o (IF b % freq = 0 THEN << <<"report", b>> >> ELSE <<>>)

RECURSIVE PassTrace(_, _, _)
PassTrace(f, B, b) ==
    IF b >= B THEN <<>> ELSE BatchTrace(f, b) \o PassTrace(f, B, b + 1)

IsPrefix(a, b) == Len(a) <= Len(b) /\ a = SubSeq(b, 1, Len(a))

\* C3 as stated: in a training pass the loss and accuracy meters are updated
\* for batch i only after the optimizer step of batch i has been taken.
C3_MetricsAfterStep ==
    fn = "train" =>
        \A p \in 1 .. Len(trace) :
            trace[p][1] = "metrics" =>
                \E q \in 1 .. p - 1 : trace[q] = <<"step", trace[p][2]>>

\* C3 amended: within every batch of a training pass the order is fetch,
\* forward, loss/accuracy metrics, zero_grad, backward, step, batch-time
\* update, maybe report; a validation pass has the same order without
\* zero_grad, backward and step; the pass is done only after the last
\* batch's report stage.
C3_StageOrder ==
    fn # "none" =>
        /\ IsPrefix(trace, PassTrace(fn, Len(loader), 0))
        /\ pc = "done" => trace = PassTrace(fn, Len(loader), 0)

\* C3 witness: a training pass over two batches has ended.
C3_Witness ==
    /\ fn = "train" /\ pc = "done" /\ Len(loader) = 2
    /\ Positions("metrics", 1) # {} /\ Positions("step", 1) # {}

\* C4: a validation pass never changes the model parameters: they equal the
\* snapshot taken when validate was called, and validate never runs
\* zero_grad, backward or step.
C4_ValidateKeepsParams ==
    fn = "validate" =>
        /\ params = snapshot
        /\ \A p \in 1 .. Len(trace) : trace[p][1] \notin OptimizerStages

\* C4 witness: a validation pass over two batches has ended on a model that
\* an earlier training pass had changed.
C4_Witness ==
    /\ fn = "validate" /\ pc = "done" /\ Len(loader) = 2
    /\ params > 0
    /\ Len(trace) >= 8

\* C5: in a training pass over B batches that did not fail, zero_grad,
\* backward and step each run exactly once per batch, in that order and
\* after the batch's forward call; in a validation pass none of them runs.
C5_OptimizerCalls ==
    /\ fn = "train" =>
          /\ \A p \in 1 .. Len(trace) :
                LET b == trace[p][2]
                IN  /\ trace[p][1] = "step" =>
                          \E q \in 1 .. p - 1 : trace[q] = <<"backward", b>>
                    /\ trace[p][1] = "backward" =>
                          \E q \in 1 .. p - 1 : trace[q] = <<"zero_grad", b>>
                    /\ trace[p][1] = "zero_grad" =>
                          \E q \in 1 .. p - 1 : trace[q] = <<"forward", b>>
          /\ \A st \in OptimizerStages, b \in 0 .. Len(loader) :
                Cardinality(Positions(st, b)) <= 1
          /\ pc = "done" =>
                \A st \in OptimizerStages :
                    /\ \A b \in 0 .. Len(loader) - 1 :
                          Cardinality(Positions(st, b)) = 1
                    /\ Cardinality({p \in 1 .. Len(trace) : trace[p][1] = st})
                          = Len(loader)
    /\ fn = "validate" =>
          \A p \in 1 .. Len(trace) : trace[p][1] \notin OptimizerStages

\* C5 witness: a training pass over two batches has ended without failure.
C5_Witness ==
    /\ fn = "train" /\ pc = "done" /\ Len(loader) = 2
    /\ params = snapshot + 2

\* C6 as stated: a pass, training or validation, returns the final running
\* top-1 average.
C6_PassReturnsTop1Avg == pc = "done" => retval = <<meters.top1.avg>>

\* C6 amended: validate returns the top-1 average its meter holds after the
\* last batch; train returns nothing (None).
C6_ValidateReturnsTop1Avg ==
    pc = "done" =>
        /\ fn = "validate" => retval = <<meters.top1.avg>>
        /\ fn = "train" => retval = <<>>

\* C6 witness: a validation pass over two batches has returned a top-1
\* average that differs from the top-5 average.
C6_Witness ==
    /\ fn = "validate" /\ pc = "done" /\ Len(loader) = 2
    /\ retval = <<meters.top1.avg>>
    /\ meters.top1.count = 3
    /\ meters.top1.avg # meters.top5.avg
    /\ meters.top1.avg # Rat(0)

\* the step in which an exception appears
FailureStep ==
    (exc = "none" /\ exc' # "none") =>
        /\ pc \in ExternalStages
        /\ pc' = "raised"
        /\ exc' = "RuntimeError"
        /\ retval' = <<>>
        /\ UNCHANGED <<seen, fn, loader, idx, cur, meters, stdout, trace>>

\* the steps after an exception has appeared
AfterFailure ==
    exc # "none" =>
        UNCHANGED <<pc, exc, fn, loader, idx, cur, meters, params, stdout,
                    retval, trace>>

\* C17: an exception raised by the model, the criterion or the optimizer
\* while batch i is processed leaves train/validate as it was raised; the
\* failed stage is not run again, no later stage of batch i and no batch
\* after i is run, and nothing is printed or returned afterwards.
C17_ExceptionPropagates ==
    /\ [][FailureStep /\ AfterFailure]_vars
    /\ [](exc # "none" =>
            /\ pc = "raised"
            /\ retval = <<>>
            /\ \A p \in 1 .. Len(trace) :
                  /\ trace[p][2] <= idx
                  /\ trace[p][2] = idx => trace[p][1] \notin {"time", "report"})

\* C17 witness: loss.backward() failed on the first of two training batches,
\* after the metrics of that batch were accumulated; nothing was printed.
C17_Witness ==
    /\ pc = "raised" /\ exc = "RuntimeError" /\ fn = "train"
    /\ Len(loader) = 2 /\ idx = 0
    /\ trace[Len(trace)] = <<"zero_grad", 0>>
    /\ meters.losses.count = Len(cur.target)
    /\ stdout = <<>> /\ retval = <<>>

\* the number of batches of the current call whose batch time was recorded
IsTimeEvent(e) == e[1] = "time"

\* C22: the meters of a call are its own: at the first fetch of every call,
\* also of a call that follows another one, the four meters are fresh, and
\* at every moment their counts and the top-1 sum are those of the batches
\* this call has processed, so the averages printed and the value validate
\* returns are computed from the batches of the call alone.
C22_MetersOwnedByCall ==
    pc \notin {"idle"} =>
        /\ (pc = "fetch" /\ idx = 0) => meters = fresh_meters
        /\ meters.batch_time.count = Len(SelectSeq(trace, IsTimeEvent))
        /\ meters.losses.count = seen.examples
        /\ meters.top1.count = seen.examples
        /\ meters.top5.count = seen.examples
        /\ meters.top1.sum = Rat(100 * seen.correct1)
        /\ (pc = "done" /\ fn = "validate") => retval = <<meters.top1.avg>>

\* C22 witness: after a training call that took an optimizer step, a
\* validation call over one batch of two examples, one of them correct at
\* top-1, has returned 50.
C22_Witness ==
    /\ ncalls = 2 /\ snapshot > 0
    /\ fn = "validate" /\ pc = "done"
    /\ seen = [examples |-> 2, correct1 |-> 1]
    /\ meters.top1.count = 2
    /\ retval = <<Rat(50)>>

\* C25: a validation pass that has processed examples returns, as a float32
\* value (relative rounding error below 2^-22), 100 * (examples of the whole
\* pass whose label is the top-1 class) / (examples of the whole pass): the
\* mean of the per-batch accuracies weighted by the batch sizes.
C25_WeightedMean ==
    (fn = "validate" /\ pc = "done" /\ seen.examples > 0) =>
        /\ Len(retval) = 1
        /\ IsPercentage(retval[1], seen.correct1, seen.examples)

\* C25 witness: batches of two examples (one correct) and of one example
\* (not correct) gave 33.33..., where the mean of 50 and 0 is 25.
C25_Witness ==
    /\ fn = "validate" /\ pc = "done" /\ Len(loader) = 2
    /\ Len(loader[1]) = 2 /\ Len(loader[2]) = 1
    /\ seen = [examples |-> 3, correct1 |-> 1]
    /\ retval = <<F32(<<100, 3>>)>>
    /\ retval # <<Rat(25)>>

\* C28: validate called on a loader without batches runs no statement of
\* the loop body (the model is not called, no progress line is printed),
\* raises nothing and can only return; it prints the summary line and
\* returns 0, the average a meter has after reset.
C28_EmptyValidate ==
    (fn = "validate" /\ Len(loader) = 0) =>
        /\ pc \in {"fetch", "done"}
        /\ exc = "none"
        /\ trace = <<>>
        /\ seen = NoneSeen
        /\ pc = "fetch" => (stdout = <<>> /\ ENABLED ValidateReturn)
        /\ pc = "done" =>
              /\ retval = <<Rat(0)>>
              /\ stdout = <<" * Acc@1 0.000 Acc@5 0.000">>

\* C28 witness: a validation call on an empty loader has returned 0.
C28_Witness ==
    /\ fn = "validate" /\ Len(loader) = 0 /\ pc = "done"
    /\ retval = <<Rat(0)>> /\ trace = <<>>
    /\ stdout = <<" * Acc@1 0.000 Acc@5 0.000">>

(***************************************************************************)
(* One pass of train or validate over a long data loader, from the call    *)
(* to its end.                                                             *)
(***************************************************************************)
\* numbers of batches of the loader handed to train and to validate
PassLengths(f) == IF f = "train" THEN {0, 1, 51} ELSE {0, 10, 11}

\* the label vector of every batch of the long loader
PassTarget == <<2>>

\* the state right after the call of f on a loader of B batches
PassStart(f, B) ==
    /\ MeterIdle
    /\ AccIdle
    /\ FmtIdle
    /\ ExtraIdle
    /\ fn = f
    /\ loader = [b \in 1 .. B |-> PassTarget]
    /\ pc = "fetch"
    /\ idx = 0
    /\ cur = NoBatch
    /\ meters = fresh_meters
    /\ params = 0
    /\ grad = "none"
    /\ flags = IF fn = "train" THEN [training |-> TRUE, grad_enabled |-> TRUE]
               ELSE [training |-> FALSE, grad_enabled |-> FALSE]
    /\ stdout = <<>>
    /\ retval = <<>>
    /\ exc = "none"
    /\ trace = <<>>
    /\ snapshot = 0
    /\ ncalls = 1
    /\ seen = NoneSeen

PassInit == \E f \in {"train", "validate"} : \E B \in PassLengths(f) : PassStart(f, B)

PassNext ==
    \/ Fetch \/ Forward \/ Metrics
    \/ ZeroGrad \/ Backward \/ OptStep
    \/ Time
    \/ TrainReturn \/ ValidateReturn
    \/ Raise

SpecPass == PassInit /\ [][PassNext]_vars

(***************************************************************************)
(* The same pass with its progress: Python runs the statements of the      *)
(* function one after the other and no external call blocks for ever, so a *)
(* pass that can take a step does take it (weak fairness on the steps).    *)
(* The loaders are shorter here.                                           *)
(***************************************************************************)
FairLengths(f) == IF f = "train" THEN {0, 2, 5} ELSE {0, 1, 11}

FairInit == \E f \in {"train", "validate"} : \E B \in FairLengths(f) : PassStart(f, B)

SpecPassFair == FairInit /\ [][PassNext]_vars /\ WF_vars(PassNext)

(***************************************************************************)
(* Claims about a whole pass, checked under SpecPass and SpecPassFair.     *)
(***************************************************************************)
\* the reporting cadence of the function f
Cadence(f) == IF f = "train" THEN train_print_frequency
              ELSE validate_print_frequency

\* ceil(a / b) for a >= 0, b > 0
CeilDiv(a, b) == (a + b - 1) \div b

IsReportEvent(e) == e[1] = "report"
IsFetchEvent(e) == e[1] = "fetch"

\* C16: with cadence N (50 in train, 10 in validate) a progress line is
\* printed for batch index i exactly when i mod N = 0: after idx batches
\* the lines are those of the batches 0, N, 2N, ... below idx, so a pass over
\* B batches prints ceil(B/N) progress lines (validate one summary line
\* more), each right after the batch-time update of its batch, and the line
\* shows the meters as they are after that batch.
C16_ReportCadence ==
    LET N     == Cadence(fn)
        lines == CeilDiv(idx, N)
    IN  /\ SelectSeq(trace, IsReportEvent)
              = [k \in 1 .. lines |-> <<"report", (k - 1) * N>>]
        /\ Len(stdout) = lines + (IF fn = "validate" /\ pc = "done" THEN 1 ELSE 0)
        /\ \A p \in 1 .. Len(trace) :
              trace[p][1] = "report" => (p > 1 /\ trace[p - 1] = <<"time", trace[p][2]>>)
        /\ pc = "done" => idx = Len(loader)
        /\ (pc = "fetch" /\ idx > 0 /\ (idx - 1) % N = 0) =>
              /\ meters.losses.count = idx
              /\ meters.batch_time.count = idx
              /\ stdout[Len(stdout)] =
                    display(pass_progress(Len(loader), pass_prefix(fn)),
                            pass_objects(meters), idx - 1)

\* C16 witness: a training pass over 51 batches has ended having printed
\* two lines, for the batches 0 and 50; every loss was 1.
C16_Witness ==
    /\ fn = "train" /\ pc = "done" /\ Len(loader) = 51
    /\ Len(stdout) = 2
    /\ stdout[1] = "Epoch:[0][ 0/51]\tTime 1.000 (1.000)\tLoss 1.000 (1.000)\tAcc@1 0.00 (0.00)\tAcc@5 100.00 (100.00)"
    /\ stdout[2] = "Epoch:[0][50/51]\tTime 1.000 (1.000)\tLoss 1.000 (1.000)\tAcc@1 0.00 (0.00)\tAcc@5 100.00 (100.00)"

\* the number of batches fetched so far
Fetched == IF pc \in {"fetch", "done"} THEN idx ELSE idx + 1

\* C18: the batches are fetched one at a time in the order of the loader,
\* each once, batch i+1 only after the metrics of batch i were accumulated;
\* a pass in which no external call fails ends after exactly B iterations,
\* and every pass ends.
C18_Sequential ==
    /\ [](/\ Fetched <= Len(loader)
          /\ SelectSeq(trace, IsFetchEvent)
                = [k \in 1 .. Fetched |-> <<"fetch", k - 1>>]
          /\ \A p \in 1 .. Len(trace) :
                (trace[p][1] = "fetch" /\ trace[p][2] > 0) =>
                    \E q \in 1 .. p - 1 : trace[q] = <<"metrics", trace[p][2] - 1>>
          /\ pc \notin {"fetch", "done"} => cur.target = loader[idx + 1]
          /\ pc = "done" => (idx = Len(loader) /\ meters.batch_time.count = Len(loader)))
    /\ <>(pc = "raised" \/ (pc = "done" /\ idx = Len(loader)))

\* C18 witness: a validation pass over 11 batches has ended after 11
\* iterations.
C18_Witness ==
    /\ fn = "validate" /\ pc = "done" /\ Len(loader) = 11
    /\ idx = 11 /\ meters.top5.count = 11
    /\ SelectSeq(trace, IsFetchEvent) = [k \in 1 .. 11 |-> <<"fetch", k - 1>>]

(***************************************************************************)
(* ProgressMeter on its own: an object is constructed and display is       *)
(* called on it while one of its meters may be updated in between.         *)
(***************************************************************************)
\* constructor arguments tried
Totals == {5, 100}
Prefixes == {"", "Test: "}
KeyLists == {<<>>, <<"x">>, <<"x", "y">>, <<"y", "x">>}
\* batch indexes handed to display
BatchIndexes == {0, 7, 100}
\* values handed to the update of meter x: 1.666..., and 0.0625 whose third
\* decimal is a tie
DisplayValues == {<<5, 3>>, <<1, 16>>}

\* meter x is fresh; meter y has seen update(0, 1) and update(100, 2)
ProgressObjects ==
    [x |-> MeterObj("Loss", [width |-> 2, prec |-> 3], AverageMeter),
     y |-> MeterObj("Acc@1", [width |-> 2, prec |-> 2],
                    update_tensor(update_tensor(AverageMeter, Rat(0), 1), Rat(100), 2))]

ProgressInit ==
    /\ MeterIdle
    /\ AccIdle
    /\ LoopIdle
    /\ ExtraIdle
    /\ numBatches \in Totals
    /\ \E keys \in KeyLists, prefix \in Prefixes :
          progressMeter = ProgressMeter(numBatches, keys, prefix)
    /\ meterObjs = ProgressObjects
    /\ printed = <<>>
    /\ calls = <<>>

\* progress.display(batch): one print call; the objects are left as
\* after_display gives them
ProgressDisplay ==
    /\ Len(printed) < MaxLines
    /\ \E batch \in BatchIndexes :
          /\ printed' = Append(printed, display(progressMeter, meterObjs, batch))
          /\ calls' = Append(calls, [batch |-> batch, objs |-> meterObjs])
          /\ progressMeter' = after_display(progressMeter, meterObjs, batch).self
          /\ meterObjs' = after_display(progressMeter, meterObjs, batch).store
    /\ UNCHANGED <<numBatches, meterVars, accVars, loopVars, extraVars>>

\* the first update(v) of meter x, made by the owner of the meter
ProgressUpdate ==
    /\ meterObjs.x.state.count = 0
    /\ \E v \in DisplayValues :
          meterObjs' = [meterObjs EXCEPT !.x.state = update(@, v, 1)]
    /\ UNCHANGED <<progressMeter, numBatches, printed, calls, meterVars, accVars, loopVars, extraVars>>

ProgressNext == ProgressDisplay \/ ProgressUpdate

SpecProgress == ProgressInit /\ [][ProgressNext]_vars

(***************************************************************************)
(* Claims about ProgressMeter, checked under SpecProgress.                 *)
(***************************************************************************)
\* the counter Python prints for the totals and batch indexes tried
CounterText(total, batch) ==
    CASE total = 100 /\ batch = 0   -> "[  0/100]"
      [] total = 100 /\ batch = 7   -> "[  7/100]"
      [] total = 100 /\ batch = 100 -> "[100/100]"
      [] total = 5 /\ batch = 0     -> "[0/5]"
      [] total = 5 /\ batch = 7     -> "[7/5]"
      [] total = 5 /\ batch = 100   -> "[100/5]"

\* number of decimal digits of n >= 0
RECURSIVE NumDigits(_)
NumDigits(n) == IF n < 10 THEN 1 ELSE 1 + NumDigits(n \div 10)

\* C19: the counter is [batch_index/total] with batch_index right-aligned
\* in a field as wide as the number of decimal digits of total (a longer
\* batch_index is printed in full); total = 100, batch_index = 7 gives
\* "[  7/100]".
C19_CounterFormat ==
    (progressMeter.prefix = "" /\ progressMeter.meters = <<>>) =>
        \A k \in 1 .. Len(printed) :
            /\ printed[k] = CounterText(numBatches, calls[k].batch)
            /\ Len(printed[k]) = 3 + NumDigits(numBatches)
                    + (IF NumDigits(calls[k].batch) > NumDigits(numBatches)
                       THEN NumDigits(calls[k].batch) ELSE NumDigits(numBatches))

\* C19 witness: display(7) on a ProgressMeter of 100 batches without prefix
\* and meters printed "[  7/100]".
C19_Witness ==
    /\ numBatches = 100 /\ progressMeter.prefix = "" /\ progressMeter.meters = <<>>
    /\ Len(printed) = 1 /\ calls[1].batch = 7
    /\ printed[1] = "[  7/100]"

\* the text Python prints for a meter in the states tried
EntryText(key, objs) ==
    CASE key = "y" -> "Acc@1 100.00 (66.67)"
      [] key = "x" /\ objs.x.state.count = 0 -> "Loss 0.000 (0.000)"
      [] key = "x" /\ objs.x.state.val = <<5, 3>> -> "Loss 1.667 (1.667)"
      [] key = "x" /\ objs.x.state.val = <<1, 16>> -> "Loss 0.062 (0.062)"

\* C20: every display call prints exactly one line: the prefix and the
\* counter, then, separated by tabs, the text of every meter given at
\* construction, once each and in construction order; a meter's text is its
\* name, its current value and, in brackets, its running average, both in
\* the meter's own format.
C20_DisplayLine ==
    /\ Len(printed) = Len(calls)
    /\ \A k \in 1 .. Len(printed) :
          LET keys == progressMeter.meters
              head == progressMeter.prefix \o CounterText(numBatches, calls[k].batch)
              objs == calls[k].objs
          IN  printed[k] =
                IF Len(keys) = 0 THEN head
                ELSE IF Len(keys) = 1 THEN head \o "\t" \o EntryText(keys[1], objs)
                ELSE head \o "\t" \o EntryText(keys[1], objs)
                          \o "\t" \o EntryText(keys[2], objs)

\* C20 witness: a ProgressMeter over the meters y, x printed its second
\* line after x was updated with 1.666...
C20_Witness ==
    /\ Len(printed) = 2
    /\ printed[1] = "Test: [  0/100]\tAcc@1 100.00 (66.67)\tLoss 0.000 (0.000)"
    /\ printed[2] = "Test: [  7/100]\tAcc@1 100.00 (66.67)\tLoss 1.667 (1.667)"

\* the states meter x can be in: fresh, or after its one update
StatesOfX ==
    {AverageMeter} \cup {update(AverageMeter, v, 1) : v \in DisplayValues}

\* C21: a display call assigns nothing: the AverageMeter objects (val, sum,
\* count, avg), the list of meters, the prefix and the counter format are
\* the same after the call, so however many display calls were made the
\* meters hold what their updates alone gave them, and two display calls
\* with the same batch index and no update in between print the same line.
C21_DisplayIsPure ==
    /\ [][Len(printed') > Len(printed) =>
              UNCHANGED <<progressMeter, meterObjs, numBatches>>]_vars
    /\ [](/\ \E keys \in KeyLists, prefix \in Prefixes :
                progressMeter = ProgressMeter(numBatches, keys, prefix)
          /\ meterObjs.y = ProgressObjects.y
          /\ meterObjs.x.state \in StatesOfX
          /\ \A k, l \in 1 .. Len(printed) :
                (calls[k].batch = calls[l].batch /\ calls[k].objs = calls[l].objs)
                    => printed[k] = printed[l])

\* C21 witness: display(7) was called twice on a ProgressMeter with both
\* meters and printed the same line twice.
C21_Witness ==
    /\ progressMeter.meters = <<"x", "y">>
    /\ Len(printed) = 2
    /\ calls[1].batch = 7 /\ calls[2].batch = 7
    /\ printed[1] = printed[2]
    /\ meterObjs.x.state = update(AverageMeter, <<5, 3>>, 1)

(***************************************************************************)
(* The pre-training cell run with pretrained_on_tiny_imagenet = False.     *)
(***************************************************************************)
\* accuracies validate may return in an epoch
EpochAccuracies == {Rat(0), Rat(25), Rat(50)}

PretrainInit ==
    /\ MeterIdle
    /\ AccIdle
    /\ LoopIdle
    /\ FmtIdle
    /\ ExtraIdle

\* one iteration of  for epoch in range(0, epochs):  train changes the
\* weights, validate returns acc1, and the checkpoint is saved if is_best
RunEpoch ==
    /\ acc1_fp32 = <<>>
    /\ epoch < epochs
    /\ \E acc1 \in EpochAccuracies :
          /\ accHistory' = Append(accHistory, acc1)
          /\ best_acc1' = py_max(acc1, best_acc1)
          /\ IF is_best(acc1, best_acc1)
             THEN /\ checkpoint' = [state_dict |-> weights + 1, acc1 |-> <<acc1>>]
                  /\ saveLog' = Append(saveLog, epoch)
             ELSE UNCHANGED <<checkpoint, saveLog>>
    /\ weights' = weights + 1
    /\ epoch' = epoch + 1
    /\ UNCHANGED <<acc1_fp32, exportVars, demoVars, meterVars, accVars, loopVars, fmtVars>>

\* the loop has ended: acc1_fp32 = best_acc1
EndTraining ==
    /\ acc1_fp32 = <<>>
    /\ epoch = epochs
    /\ acc1_fp32' = <<best_acc1>>
    /\ UNCHANGED <<epoch, best_acc1, weights, checkpoint, accHistory, saveLog,
                   exportVars, demoVars, meterVars, accVars, loopVars, fmtVars>>

PretrainNext == RunEpoch \/ EndTraining

SpecPretrain == PretrainInit /\ [][PretrainNext]_vars

(***************************************************************************)
(* Claims about the pre-training cell, checked under SpecPretrain.         *)
(***************************************************************************)
\* the largest of 0 and the first n accuracies
RECURSIVE BestOf(_, _)
BestOf(h, n) ==
    IF n = 0 THEN Rat(0)
    ELSE IF RatLeq(h[n], BestOf(h, n - 1)) THEN BestOf(h, n - 1) ELSE h[n]

\* the epochs among the first n whose accuracy is strictly above the best
\* before them, in order
RECURSIVE Improving(_, _)
Improving(h, n) ==
    IF n = 0 THEN <<>>
    ELSE IF RatLeq(h[n], BestOf(h, n - 1)) THEN Improving(h, n - 1)
    ELSE Append(Improving(h, n - 1), n - 1)

\* C26: best_acc1 never decreases and is the largest of 0 and the
\* accuracies seen; torch.save ran in exactly the epochs whose accuracy was
\* strictly above the best before them (never in an epoch that ties it);
\* once a checkpoint was written, the last one written holds the final best
\* accuracy and the weights of the epoch that reached it; at the end
\* acc1_fp32 is best_acc1.
C26_BestCheckpoint ==
    /\ [][RatLeq(best_acc1, best_acc1')]_vars
    /\ [](/\ best_acc1 = BestOf(accHistory, Len(accHistory))
          /\ saveLog = Improving(accHistory, Len(accHistory))
          /\ saveLog = <<>> => checkpoint = DownloadedCheckpoint
          /\ saveLog # <<>> =>
                /\ checkpoint.acc1 = <<best_acc1>>
                /\ checkpoint.state_dict = saveLog[Len(saveLog)] + 1
                /\ accHistory[saveLog[Len(saveLog)] + 1] = best_acc1
          /\ acc1_fp32 # <<>> => acc1_fp32 = <<best_acc1>>)

\* C26 witness: the accuracies 25, 50, 50, 25: checkpoints were written in
\* the epochs 0 and 1, the tie of epoch 2 wrote nothing, and the file holds
\* the weights and the accuracy of epoch 1.
C26_Witness ==
    /\ accHistory = <<Rat(25), Rat(50), Rat(50), Rat(25)>>
    /\ saveLog = <<0, 1>>
    /\ checkpoint = [state_dict |-> 2, acc1 |-> <<Rat(50)>>]
    /\ acc1_fp32 = <<Rat(50)>>

(***************************************************************************)
(* The export cells of the three notebooks, run and re-run by the user     *)
(* while the model objects change.                                         *)
(***************************************************************************)
MaxRuns == 2    \* executions of one export cell
MaxEdits == 1   \* changes of one in-memory model

ExportInit ==
    /\ MeterIdle
    /\ AccIdle
    /\ LoopIdle
    /\ FmtIdle
    /\ ExtraIdle

\* one execution of the export cell of path: ov.convert_model and
\* ov.save_model run only under  if not path.exists()
ExportCell(path) ==
    /\ runs[path] < MaxRuns
    /\ runs' = [runs EXCEPT ![path] = @ + 1]
    /\ IF export_needed(files, path)
       THEN /\ conversions' = [conversions EXCEPT ![path] = @ + 1]
            /\ files' = [files EXCEPT ![path] = <<inMemory[path]>>]
       ELSE UNCHANGED <<files, conversions>>
    /\ UNCHANGED <<inMemory, trainVars, demoVars, meterVars, accVars, loopVars,
                   fmtVars>>

\* other cells change the model object (fine-tuning, reloading weights)
ChangeModel(path) ==
    /\ inMemory[path] < MaxEdits
    /\ inMemory' = [inMemory EXCEPT ![path] = @ + 1]
    /\ UNCHANGED <<files, conversions, runs, trainVars, demoVars, meterVars,
                   accVars, loopVars, fmtVars>>

ExportNext == \E path \in IRPaths : ExportCell(path) \/ ChangeModel(path)

SpecExport == ExportInit /\ [][ExportNext]_vars

(***************************************************************************)
(* Claims about the export cells, checked under SpecExport.                *)
(***************************************************************************)
\* C27: an export cell converts and saves only when no file exists at its
\* path: a file that exists is never written again, so whatever the number
\* of runs of the cell there was one conversion, made by the first run, and
\* the file keeps the version it was made of also after the model object
\* has changed.
C27_ExportOnce ==
    /\ [][\A path \in IRPaths :
            exists(files, path) =>
                /\ files'[path] = files[path]
                /\ conversions'[path] = conversions[path]]_vars
    /\ [](\A path \in IRPaths :
            /\ conversions[path] = (IF runs[path] = 0 THEN 0 ELSE 1)
            /\ exists(files, path) <=> runs[path] > 0
            /\ exists(files, path) => files[path][1] <= inMemory[path])

\* C27 witness: the TAPAS export cell ran twice, the second time after the
\* model had changed; one conversion was made and the file is still the one
\* made of the first model.
C27_Witness ==
    /\ runs["models/ov_model.xml"] = 2
    /\ inMemory["models/ov_model.xml"] = 1
    /\ conversions["models/ov_model.xml"] = 1
    /\ files["models/ov_model.xml"] = <<0>>

(***************************************************************************)
(* The demo cell: the interface is launched and serves requests.           *)
(***************************************************************************)
MaxRequests == 2   \* clicks of the Submit button
MaxCoords == 2     \* answer cells the pipeline reports for one query

\* the tables read from the uploaded file, every cell a string
Tables ==
    {DataFrame(<<0, 1>>, <<"City", "Country">>,
               [pos \in (0..1) \X (0..1) |->
                    IF pos = <<0, 0>> THEN "Madrid"
                    ELSE IF pos = <<0, 1>> THEN "Spain"
                    ELSE IF pos = <<1, 0>> THEN "Rome" ELSE "Italy"]),
     DataFrame(<<0>>, <<"City", "Country", "Population">>,
               [pos \in {0} \X (0..2) |->
                    IF pos = <<0, 0>> THEN "Paris"
                    ELSE IF pos = <<0, 1>> THEN "France" ELSE "2138551"])}

\* the coordinates the pipeline can report for a table: cells of the table,
\* in any order, repeats included
CoordSeqs(x) ==
    UNION {[1..n -> CellsOf(x)] : n \in 0..MaxCoords}

Answers == {"Madrid", "COUNT > Madrid, Rome"}

DemoInit ==
    /\ MeterIdle
    /\ AccIdle
    /\ LoopIdle
    /\ FmtIdle
    /\ ExtraIdle

NotDemo == <<trainVars, exportVars, meterVars, accVars, loopVars, fmtVars>>

\* the cell starts: demo.queue().launch(debug=True) is called
LaunchCell ==
    /\ demoPc = "idle"
    /\ demoPc' = "launch_local"
    /\ launches' = <<[share |-> FALSE, outcome |-> "pending"]>>
    /\ UNCHANGED <<demoExc, requests, tqaCalls, inferOut, NotDemo>>

\* the launch in progress brings the interface up
LaunchServes ==
    /\ demoPc \in {"launch_local", "launch_share"}
    /\ demoPc' = "serving"
    /\ launches' = [launches EXCEPT ![Len(launches)].outcome = "serving"]
    /\ UNCHANGED <<demoExc, requests, tqaCalls, inferOut, NotDemo>>

\* the launch in progress raises e; the except clause of the cell decides
LaunchRaises(e) ==
    /\ demoPc \in {"launch_local", "launch_share"}
    /\ LET share == launches[Len(launches)].share
           next == launch_raised(share, e)
           done == [launches EXCEPT ![Len(launches)].outcome = e]
       IN /\ demoPc' = next.pc
          /\ demoExc' = next.exc
          /\ launches' = IF next.pc = "launch_share"
                         THEN Append(done, [share |-> TRUE, outcome |-> "pending"])
                         ELSE done
    /\ UNCHANGED <<requests, tqaCalls, inferOut, NotDemo>>

\* infer(query, csv_file_name) on a click: the table is read, the pipeline
\* answers and the answer cells are highlighted
Infer(table, coordinates, answer) ==
    /\ demoPc = "serving"
    /\ requests < MaxRequests
    /\ requests' = requests + 1
    /\ tqaCalls' = tqaCalls + 1
    /\ LET styled == highlight_answers(table, coordinates)
       IN inferOut' = <<[answer |-> answer,
                         read |-> table,
                         coordinates |-> coordinates,
                         data |-> styled.x,
                         styles |-> styled.highlighted_table]>>
    /\ UNCHANGED <<demoPc, launches, demoExc, NotDemo>>

\* the pipeline raises inside infer: infer has no handler, the exception
\* leaves it and nothing is returned
InferRaises(e) ==
    /\ demoPc = "serving"
    /\ requests < MaxRequests
    /\ requests' = requests + 1
    /\ tqaCalls' = tqaCalls + 1
    /\ inferOut' = <<[raised |-> e]>>
    /\ UNCHANGED <<demoPc, launches, demoExc, NotDemo>>

\* the interface is stopped and the blocking launch returns
DemoStops ==
    /\ demoPc = "serving"
    /\ demoPc' = "done"
    /\ launches' = [launches EXCEPT ![Len(launches)].outcome = "returned"]
    /\ UNCHANGED <<demoExc, requests, tqaCalls, inferOut, NotDemo>>

DemoNext ==
    \/ LaunchCell
    \/ LaunchServes
    \/ \E e \in LaunchErrors : LaunchRaises(e)
    \/ \E table \in Tables : \E coordinates \in CoordSeqs(table) :
          \E answer \in Answers : Infer(table, coordinates, answer)
    \/ \E e \in {"RuntimeError"} : InferRaises(e)
    \/ DemoStops

SpecDemo == DemoInit /\ [][DemoNext]_vars

(***************************************************************************)
(* Claims about the demo, checked under SpecDemo.                          *)
(***************************************************************************)
Raised(i) == launches[i].outcome \in LaunchErrors

C30_HighlightExactly ==
    (inferOut # <<>> /\ "styles" \in DOMAIN inferOut[1]) =>
        LET out == inferOut[1]
        IN /\ out.styles.index = out.read.index
           /\ out.styles.columns = out.read.columns
           /\ DOMAIN out.styles.cells = CellsOf(out.read)
           /\ \A pos \in CellsOf(out.read) :
                 out.styles.cells[pos] =
                    (IF pos \in Range(out.coordinates) THEN HighlightStyle ELSE "")
           /\ out.data = out.read
           /\ \A other \in CoordSeqs(out.read) :
                 Range(other) = Range(out.coordinates) =>
                    highlight_answers(out.read, other).highlighted_table = out.styles

\* C30 witness: the pipeline reported the cell (1, 0) twice for the table of
\* two rows; that cell alone is highlighted.
C30_Witness ==
    /\ inferOut # <<>>
    /\ "styles" \in DOMAIN inferOut[1]
    /\ inferOut[1].coordinates = <<<<1, 0>>, <<1, 0>>>>
    /\ Len(inferOut[1].read.index) = 2
    /\ inferOut[1].styles.cells =
          [pos \in (0..1) \X (0..1) |->
              IF pos = <<1, 0>> THEN "background-color: lightgreen" ELSE ""]
    /\ inferOut[1].data.cells[<<1, 0>>] = "Rome"
====
